---------------------------- MODULE Spec2Model ----------------------------
(***************************************************************************)
(* Model of matrix-market-rs (src/src/lib.rs): MtxData::from_file and the  *)
(* stage functions parse_banner, skip_comments, parse_sizes,               *)
(* parse_sparse_coo, parse_dense_vec and parse_coords_val.                 *)
(*                                                                         *)
(* A String is a sequence of one-character strings, a file is the sequence *)
(* of its lines (each ending in "\n"), and the BufReader is the number of  *)
(* lines already handed out.  The file is a readable UTF-8 text file, so   *)
(* File::open and read_line never return an io::Error.  The scalar type T  *)
(* is i32, as in the crate's tests and doc example.                        *)
(*                                                                         *)
(* usize arithmetic that overflows panics when the crate is built with     *)
(* overflow checks (debug profile) and wraps when it is built without      *)
(* (release profile); the variable overflow_checks picks the build.        *)
(***************************************************************************)
EXTENDS Integers, Sequences, FiniteSets, TLC

(***************************************************************************)
(* Bounds of the model.                                                    *)
(***************************************************************************)
\* width of usize in bits (scaled down from 32/64 so that the wrapped
\* value usize::MAX is a number TLC can hold)
UsizeBits == 8
\* comment lines a caller inserts into a file before parsing it again
MaxComments == 2
\* lines a caller appends to a file before parsing it again
MaxExtra == 2
\* length of the files made of comment and blank lines only
MaxCommentOnly == 3

\* const NDIM: usize = 2 (the default of MtxData)
NDIM == 2
\* i32::MAX, T = i32
I32Max == 2147483647

UsizeMax == 2^UsizeBits - 1

\* const COMMENT: char = '%';
COMMENT == "%"

(***************************************************************************)
(* Strings.                                                                *)
(***************************************************************************)
\* char::is_whitespace, on the characters that occur
IsWhitespace(c) == c \in {" ", "\t", "\n", "\r"}

\* str::starts_with(char)
StartsWith(s, c) == Len(s) > 0 /\ s[1] = c

RECURSIVE TrimEnd(_)
\* str::trim_end
TrimEnd(s) ==
    IF Len(s) > 0 /\ IsWhitespace(s[Len(s)])
    THEN TrimEnd(SubSeq(s, 1, Len(s) - 1))
    ELSE s

RECURSIVE SplitFrom(_, _, _)
\* the scan behind str::split_whitespace: cur is the token being read,
\* acc the tokens finished
SplitFrom(s, cur, acc) ==
    IF s = <<>>
    THEN IF cur = <<>> THEN acc ELSE Append(acc, cur)
    ELSE IF IsWhitespace(Head(s))
         THEN SplitFrom(Tail(s), <<>>, IF cur = <<>> THEN acc ELSE Append(acc, cur))
         ELSE SplitFrom(Tail(s), Append(cur, Head(s)), acc)

\* str::split_whitespace, collected
SplitWhitespace(s) == SplitFrom(s, <<>>, <<>>)

\* Iterator::skip(n) on a collected iterator
Skip(toks, n) == IF Len(toks) <= n THEN <<>> ELSE SubSeq(toks, n + 1, Len(toks))

(***************************************************************************)
(* Number parsing.  A parse result is [ok, val, kind]: kind is the         *)
(* IntErrorKind of the ParseIntError when ok is FALSE.                     *)
(***************************************************************************)
IsDigit(c) == c \in {"0", "1", "2", "3", "4", "5", "6", "7", "8", "9"}

DigitVal(c) ==
    CASE c = "0" -> 0 [] c = "1" -> 1 [] c = "2" -> 2 [] c = "3" -> 3
      [] c = "4" -> 4 [] c = "5" -> 5 [] c = "6" -> 6 [] c = "7" -> 7
      [] c = "8" -> 8 [] c = "9" -> 9

ParseOk(v) == [ok |-> TRUE, val |-> v, kind |-> "none"]
ParseErr(kind) == [ok |-> FALSE, val |-> 0, kind |-> kind]

RECURSIVE ParseDigits(_, _, _)
\* the digit loop of from_str_radix(_, 10): checked_mul(10) then checked_add(digit),
\* the result bounded by max
ParseDigits(s, acc, max) ==
    IF s = <<>> THEN ParseOk(acc)
    ELSE IF ~IsDigit(Head(s)) THEN ParseErr("InvalidDigit")
    ELSE IF acc > max \div 10 \/ acc * 10 > max - DigitVal(Head(s))
         THEN ParseErr("PosOverflow")
         ELSE ParseDigits(Tail(s), acc * 10 + DigitVal(Head(s)), max)

\* usize::from_str: an optional "+", then digits; "-" is no digit of an unsigned
UsizeFromStr(s) ==
    IF s = <<>> THEN ParseErr("Empty")
    ELSE IF Len(s) = 1 /\ s[1] \in {"+", "-"} THEN ParseErr("InvalidDigit")
    ELSE IF s[1] = "+" THEN ParseDigits(Tail(s), 0, UsizeMax)
    ELSE ParseDigits(s, 0, UsizeMax)

RECURSIVE ParseDigitsNeg(_, _, _)
\* the digit loop after a "-": checked_mul(10) then checked_sub(digit), the
\* result bounded by min
ParseDigitsNeg(s, acc, min) ==
    IF s = <<>> THEN ParseOk(acc)
    ELSE IF ~IsDigit(Head(s)) THEN ParseErr("InvalidDigit")
    ELSE IF acc < 0 - ((0 - (min + 1)) \div 10) \/ acc * 10 < min + DigitVal(Head(s))
         THEN ParseErr("NegOverflow")
         ELSE ParseDigitsNeg(Tail(s), acc * 10 - DigitVal(Head(s)), min)

\* <i32 as Num>::from_str_radix(s, 10): an optional sign, then digits
I32FromStrRadix(s) ==
    IF s = <<>> THEN ParseErr("Empty")
    ELSE IF Len(s) = 1 /\ s[1] \in {"+", "-"} THEN ParseErr("InvalidDigit")
    ELSE IF s[1] = "+" THEN ParseDigits(Tail(s), 0, I32Max)
    ELSE IF s[1] = "-" THEN ParseDigitsNeg(Tail(s), 0, 0 - I32Max - 1)
    ELSE ParseDigits(s, 0, I32Max)

(***************************************************************************)
(* Errors and stage outcomes.                                              *)
(***************************************************************************)
\* a value of enum MtxError: its variant and the payload it carries
MtxError(kind, arg) == [kind |-> kind, arg |-> arg]
NoErr == MtxError("none", <<>>)

\* impl From<ParseIntError> for MtxError
FromParseIntError(p) == MtxError("InvalidCoordinate", <<p.kind>>)

\* Option<usize>
None == [some |-> FALSE, val |-> 0]
Some(v) == [some |-> TRUE, val |-> v]

\* the literals the code compares tokens with
StrCoordinate == <<"c", "o", "o", "r", "d", "i", "n", "a", "t", "e">>
StrGeneral == <<"g", "e", "n", "e", "r", "a", "l">>
StrSymmetric == <<"s", "y", "m", "m", "e", "t", "r", "i", "c">>

\* impl FromStr for SymInfo
SymInfoFromStr(s) ==
    LET t == TrimEnd(s)
    IN  IF t = StrGeneral THEN [ok |-> TRUE, sym |-> "General", err |-> NoErr]
        ELSE IF t = StrSymmetric THEN [ok |-> TRUE, sym |-> "Symmetric", err |-> NoErr]
        ELSE [ok |-> FALSE, sym |-> "none", err |-> MtxError("UnsupportedSym", t)]

\* number of leading banner fields parse_banner skips
BannerSkip == 2

\* mutant of IsCoordinate: the comparison inverted
IsCoordinateInverted(c) == c # StrCoordinate

\* the closure |c| c == "coordinate" of parse_banner
IsCoordinate(c) == c = StrCoordinate

\* parse_banner after its read_line: Result<(bool, SymInfo), MtxError>
BannerOf(buf) ==
    LET banner == Skip(SplitWhitespace(buf), BannerSkip)
        bad(e) == [tag |-> "err", is_sparse |-> FALSE, sym |-> "none", err |-> e]
    IN  IF Len(banner) < 1 THEN bad(MtxError("EarlyBannerEnd", <<>>))
        ELSE IF Len(banner) < 3 THEN bad(MtxError("EarlyBannerEnd", <<>>))
        ELSE LET s == SymInfoFromStr(banner[3])
             IN  IF ~s.ok THEN bad(s.err)
                 ELSE [tag |-> "ok", is_sparse |-> IsCoordinate(banner[1]),
                       sym |-> s.sym, err |-> NoErr]

\* mutant of IsComment: the wrong comment character
IsCommentHash(buf) == StartsWith(buf, "#")

\* buf.starts_with(COMMENT) in skip_comments
IsComment(buf) == StartsWith(buf, COMMENT)

RECURSIVE SizesLoop(_, _, _, _)
\* the for loop of parse_sizes over the tokens left, i the enumerate index
SizesLoop(toks, i, dims, nnz) ==
    IF toks = <<>> THEN [tag |-> "ok", dims |-> dims, nnz |-> nnz, err |-> NoErr]
    ELSE LET num == UsizeFromStr(Head(toks))
         IN  IF ~num.ok
             THEN [tag |-> "err", dims |-> dims, nnz |-> nnz, err |-> FromParseIntError(num)]
             ELSE IF i = NDIM
                  THEN SizesLoop(Tail(toks), i + 1, dims, Some(num.val))
                  ELSE IF i > NDIM
                       \* dims[i] = num with i out of the array's bounds
                       THEN [tag |-> "panic", dims |-> dims, nnz |-> nnz, err |-> NoErr]
                       ELSE SizesLoop(Tail(toks), i + 1,
                                      [dims EXCEPT ![i + 1] = num.val], nnz)

\* mutant of ParseSizes: a zero dimension is let through
ParseSizesZeroAllowed(buf) ==
    SizesLoop(SplitWhitespace(buf), 0, [d \in 1..NDIM |-> 0], None)

\* parse_sizes: Result<([usize; NDIM], Option<usize>), MtxError>
ParseSizes(buf) ==
    LET r == SizesLoop(SplitWhitespace(buf), 0, [d \in 1..NDIM |-> 0], None)
    IN  IF r.tag # "ok" THEN r
        ELSE IF \E d \in 1..NDIM : r.dims[d] = 0
             THEN [r EXCEPT !.tag = "err", !.err = MtxError("EarlySizesHeaderEnd", <<>>)]
             ELSE r

\* mutant of SubOne: the coordinate is kept 1-based
SubOneForgotten(num, checks) == [panic |-> FALSE, val |-> num]

\* num - 1 on usize: panics under overflow checks, wraps without
SubOne(num, checks) ==
    IF num >= 1 THEN [panic |-> FALSE, val |-> num - 1]
    ELSE IF checks THEN [panic |-> TRUE, val |-> 0]
    ELSE [panic |-> FALSE, val |-> UsizeMax]

RECURSIVE CoordsLoop(_, _, _, _, _)
\* the for loop of parse_coords_val over the tokens left, i the enumerate index
CoordsLoop(toks, i, dims, value, checks) ==
    IF toks = <<>> THEN [tag |-> "ok", dims |-> dims, value |-> value, err |-> NoErr]
    ELSE IF i = NDIM
         THEN LET num == I32FromStrRadix(Head(toks))
              IN  IF ~num.ok
                  THEN [tag |-> "err", dims |-> dims, value |-> value,
                        err |-> MtxError("InvalidNum", Head(toks))]
                  ELSE CoordsLoop(Tail(toks), i + 1, dims, Some(num.val), checks)
         ELSE LET num == UsizeFromStr(Head(toks))
              IN  IF ~num.ok
                  THEN [tag |-> "err", dims |-> dims, value |-> value,
                        err |-> FromParseIntError(num)]
                  ELSE LET m == SubOne(num.val, checks)
                       IN  IF m.panic \/ i > NDIM
                           \* the subtraction overflowed, or dims[i] is out of bounds
                           THEN [tag |-> "panic", dims |-> dims, value |-> value, err |-> NoErr]
                           ELSE CoordsLoop(Tail(toks), i + 1,
                                           [dims EXCEPT ![i + 1] = m.val], value, checks)

\* mutant of ParseCoordsVal: a line without its value is let through
ParseCoordsValNoEnd(line, checks) ==
    CoordsLoop(SplitWhitespace(line), 0, [d \in 1..NDIM |-> 0], None, checks)

\* parse_coords_val: Result<([usize; NDIM], T), MtxError>
ParseCoordsVal(line, checks) ==
    LET r == CoordsLoop(SplitWhitespace(line), 0, [d \in 1..NDIM |-> 0], None, checks)
    IN  IF r.tag # "ok" THEN r
        ELSE IF r.value.some THEN r
        ELSE [r EXCEPT !.tag = "err", !.err = MtxError("EarlyLineEnd", <<>>)]

RECURSIVE ProductFrom(_, _, _, _)
\* dims.iter().product() from index d on: a usize multiplication per element
ProductFrom(dims, d, acc, checks) ==
    IF d > Len(dims) THEN [panic |-> FALSE, val |-> acc]
    ELSE IF acc * dims[d] > UsizeMax /\ checks THEN [panic |-> TRUE, val |-> 0]
    ELSE ProductFrom(dims, d + 1, (acc * dims[d]) % (UsizeMax + 1), checks)

\* let capacity = dims.iter().product();
Product(dims, checks) == ProductFrom(dims, 1, 1, checks)

\* T::from_str_radix(buf.trim_end(), 10) in parse_dense_vec
DenseValue(buf) ==
    LET num == I32FromStrRadix(TrimEnd(buf))
    IN  IF num.ok THEN [tag |-> "ok", val |-> num.val, err |-> NoErr]
        ELSE [tag |-> "err", val |-> 0, err |-> MtxError("InvalidNum", buf)]

\* mutant of RangeDone: the loop stops one iteration early
RangeDoneEarly(k, n) == k + 1 >= n

\* mutant of RangeDone: the loop runs one iteration more
RangeDoneLate(k, n) == k > n

\* the test of `for _ in 0..n` after k iterations
RangeDone(k, n) == k >= n

(***************************************************************************)
(* Input files.                                                            *)
(***************************************************************************)
RECURSIVE JoinWords(_)
JoinWords(ws) ==
    IF ws = <<>> THEN <<>>
    ELSE IF Len(ws) = 1 THEN ws[1]
    ELSE ws[1] \o <<" ">> \o JoinWords(Tail(ws))

\* a line of text: the words separated by one space, then the newline
Line(ws) == JoinWords(ws) \o <<"\n">>

WMatrixMarket == <<"%", "%", "M", "a", "t", "r", "i", "x", "M", "a", "r", "k", "e", "t">>
WMatrix == <<"m", "a", "t", "r", "i", "x">>
WArray == <<"a", "r", "r", "a", "y">>
WInteger == <<"i", "n", "t", "e", "g", "e", "r">>
WHermitian == <<"h", "e", "r", "m", "i", "t", "i", "a", "n">>

BannerSparse == Line(<<WMatrixMarket, WMatrix, StrCoordinate, WInteger, StrSymmetric>>)
BannerDense == Line(<<WMatrixMarket, WMatrix, WArray, WInteger, StrGeneral>>)
CommentLine == Line(<<<<"%", "c">>>>)
CommentBanner == Line(<<<<"%">>, <<"a">>, WArray, <<"b">>, StrGeneral>>)
BlankLine == Line(<<>>)

\* the doc example of from_file, a dense file of 1 x 2, and a sparse file
\* with a comment line and one entry
SparseFile ==
    << BannerSparse, Line(<<<<"2">>, <<"2">>, <<"2">>>>),
       Line(<<<<"1">>, <<"1">>, <<"3">>>>), Line(<<<<"2">>, <<"2">>, <<"4">>>>) >>
DenseFile ==
    << BannerDense, Line(<<<<"1">>, <<"2">>>>), Line(<<<<"3">>>>), Line(<<<<"4">>>>) >>
CommentedFile ==
    << Line(<<WMatrixMarket, WMatrix, StrCoordinate, WInteger, StrGeneral>>),
       CommentLine, Line(<<<<"1">>, <<"2">>, <<"1">>>>),
       Line(<<<<"1">>, <<"2">>, <<"-", "7">>>>) >>

\* the lines a line of a file may be replaced by
Lines ==
    { BannerSparse, BannerDense, CommentLine, CommentBanner, BlankLine,
      Line(<<WMatrixMarket, WMatrix, StrCoordinate, WInteger, WHermitian>>),
      Line(<<WMatrixMarket, WMatrix, StrCoordinate>>),
      Line(<<WMatrixMarket, WMatrix, StrCoordinate, WInteger>>),
      Line(<<<<"x">>, <<"y">>, StrCoordinate, <<"z">>, StrGeneral>>),
      Line(<<<<"x">>, <<"y">>, WArray, <<"z">>, StrSymmetric, <<"w">>>>),
      Line(<<<<"2">>, <<"2">>, <<"2">>>>),
      Line(<<<<"2">>, <<"2">>, <<"1">>>>),
      Line(<<<<"2">>, <<"2">>, <<"0">>>>),
      Line(<<<<"2">>, <<"2">>, <<"3">>>>),
      Line(<<<<"2">>, <<"0">>, <<"1">>>>),
      Line(<<<<"2">>, <<"2">>, <<"2">>, <<"5">>>>),
      Line(<<<<"2">>, <<"2">>>>),
      Line(<<<<"1">>, <<"2">>>>),
      Line(<<<<"1">>, <<"1">>>>),
      Line(<<<<"2">>, <<"x">>>>),
      Line(<<<<"1">>, <<"1">>, <<"3">>>>),
      Line(<<<<"0">>, <<"1">>, <<"3">>>>),
      Line(<<<<"1">>, <<"0">>, <<"3">>>>),
      Line(<<<<"1">>, <<"1">>, <<"3">>, <<"9">>>>),
      Line(<<<<"1">>, <<"0", ".", "5">>>>),
      Line(<<<<"1">>, <<"1">>, <<"0", ".", "5">>>>),
      Line(<<<<"0">>>>),
      Line(<<<<"3">>>>),
      Line(<<<<"-", "7">>>>),
      Line(<<<<"x">>>>),
      <<" ", "3", "\n">>,
      <<" ", "%", "c", "\n">>,
      <<"2", "\t", "2", " ", " ", "4", "\r", "\n">> }

\* f with line i replaced by l
Replace(f, i, l) == [f EXCEPT ![i] = l]

\* the well-formed files, each of them with one line replaced, and each cut short
FaultFiles ==
    UNION { {f} \cup { Replace(f, i, l) : i \in 1..Len(f), l \in Lines }
                \cup { SubSeq(f, 1, n) : n \in 0..Len(f) }
            : f \in {SparseFile, DenseFile, CommentedFile} }

\* the files of at most MaxCommentOnly comment and blank lines
CommentOnlyFiles ==
    UNION { [1..n -> {CommentLine, CommentBanner, BlankLine}] : n \in 0..MaxCommentOnly }

Files == FaultFiles \cup CommentOnlyFiles

\* n copies of line l
Copies(l, n) == [i \in 1..n |-> l]

\* what a caller does to a file before it parses it a second time
Edits ==
    {[kind |-> "none", n |-> 0, line |-> <<>>]}
    \cup [kind : {"before_banner", "before_sizes"}, n : 1..MaxComments,
          line : {CommentLine, CommentBanner}]
    \cup [kind : {"append"}, n : 1..MaxExtra,
          line : {CommentLine, Line(<<<<"2">>, <<"2">>, <<"4">>>>), Line(<<<<"x">>>>)}]

\* the file f after edit e
Edited(f, e) ==
    CASE e.kind = "none" -> f
      [] e.kind = "before_banner" -> Copies(e.line, e.n) \o f
      [] e.kind = "before_sizes" ->
            IF f = <<>> THEN f
            ELSE <<Head(f)>> \o Copies(e.line, e.n) \o Tail(f)
      [] e.kind = "append" -> f \o Copies(e.line, e.n)

(***************************************************************************)
(* State.                                                                  *)
(***************************************************************************)
VARIABLES
    overflow_checks, \* the build: TRUE when integer overflow panics
    file,            \* the lines of the file at `path`
    pos,             \* reader: the number of lines read_line has returned
    buf,             \* line: the String shared by the stages
    stage,           \* the stage function from_file is in, or was in when it ended
    result,          \* what from_file returned, tag "None" while it runs
    is_sparse, sym,  \* the banner's outcome
    dims, nnz,       \* the size line's outcome
    capacity,        \* the number of dense values to read
    indices, values, \* the vectors the body parser fills
    k,               \* iterations the body parser's for loop has completed
    call,            \* 1 in the caller's first from_file, 2 in its second
    first,           \* the first call's file, reader position and result
    edit             \* how the second call's file was made from the first's

vars == << overflow_checks, file, pos, buf, stage, result, is_sparse, sym, dims, nnz,
           capacity, indices, values, k, call, first, edit >>

\* Result<MtxData<i32, NDIM>, MtxError>, or the panic that ended the call
NoResult ==
    [tag |-> "None", dims |-> <<>>, indices |-> <<>>, values |-> <<>>,
     sym |-> "none", err |-> NoErr]
OkSparse(d, i, v, s) == [NoResult EXCEPT !.tag = "Sparse", !.dims = d, !.indices = i,
                                         !.values = v, !.sym = s]
OkDense(d, v, s) == [NoResult EXCEPT !.tag = "Dense", !.dims = d, !.values = v, !.sym = s]
Failed(e) == [NoResult EXCEPT !.tag = "Err", !.err = e]
Panicked == [NoResult EXCEPT !.tag = "Panic"]

Running == result.tag = "None"

\* reader.read_line returned 0
AtEof == pos = Len(file)

NoEdit == [kind |-> "none", n |-> 0, line |-> <<>>]

\* the locals of from_file at its entry
Entry ==
    /\ pos' = 0
    /\ buf' = <<>>
    /\ stage' = "parse_banner"
    /\ result' = NoResult
    /\ is_sparse' = FALSE
    /\ sym' = "none"
    /\ dims' = <<>>
    /\ nnz' = 0
    /\ capacity' = 0
    /\ indices' = <<>>
    /\ values' = <<>>
    /\ k' = 0

Init ==
    /\ overflow_checks \in BOOLEAN
    /\ file \in Files
    /\ pos = 0
    /\ buf = <<>>
    /\ stage = "parse_banner"
    /\ result = NoResult
    /\ is_sparse = FALSE
    /\ sym = "none"
    /\ dims = <<>>
    /\ nnz = 0
    /\ capacity = 0
    /\ indices = <<>>
    /\ values = <<>>
    /\ k = 0
    /\ call = 1
    /\ first = [file |-> <<>>, pos |-> 0, result |-> NoResult]
    /\ edit = NoEdit

\* mutant of Try: the outcome is not looked at
TryUnchecked(o) == TRUE

\* the `?` operator: TRUE when the outcome is Ok and the function goes on
Try(o) == o.tag = "ok"

\* the result from_file ends with when a stage's outcome is not Ok
Ended(o) == IF o.tag = "panic" THEN Panicked ELSE Failed(o.err)

(***************************************************************************)
(* from_file, stage by stage.                                              *)
(***************************************************************************)
\* let (is_sparse, sym) = parse_banner(&mut reader, &mut line)?;
ParseBanner ==
    /\ Running /\ stage = "parse_banner"
    /\ IF AtEof
       THEN /\ result' = Failed(MtxError("EarlyEOF", <<>>))
            /\ UNCHANGED << pos, buf, stage, is_sparse, sym >>
       ELSE LET b == buf \o file[pos + 1]
                o == BannerOf(b)
            IN  /\ pos' = pos + 1
                /\ IF Try(o)
                   THEN /\ buf' = <<>>
                        /\ is_sparse' = o.is_sparse
                        /\ sym' = o.sym
                        /\ stage' = "skip_comments"
                        /\ UNCHANGED result
                   ELSE /\ buf' = b
                        /\ result' = Ended(o)
                        /\ UNCHANGED << stage, is_sparse, sym >>
    /\ UNCHANGED << overflow_checks, file, dims, nnz, capacity, indices, values, k,
                    call, first, edit >>

\* skip_comments(&mut reader, &mut line)?;  one iteration of its while loop
SkipComments ==
    /\ Running /\ stage = "skip_comments"
    /\ IF AtEof
       THEN /\ buf' = <<>>
            /\ result' = Failed(MtxError("EarlyEOF", <<>>))
            /\ UNCHANGED << pos, stage >>
       ELSE LET b == file[pos + 1]
            IN  /\ buf' = b
                /\ pos' = pos + 1
                /\ stage' = IF IsComment(b) THEN "skip_comments" ELSE "parse_sizes"
                /\ UNCHANGED result
    /\ UNCHANGED << overflow_checks, file, is_sparse, sym, dims, nnz, capacity, indices,
                    values, k, call, first, edit >>

\* let (dims, nnz) = parse_sizes(&mut line)?;  and the branch on is_sparse up to
\* the call of the body parser
ParseSizesStage ==
    /\ Running /\ stage = "parse_sizes"
    /\ LET o == ParseSizes(buf)
           cap == Product(o.dims, overflow_checks)
       IN  IF ~Try(o)
           THEN /\ result' = Ended(o)
                /\ buf' = IF o.tag = "err" /\ o.err.kind = "EarlySizesHeaderEnd"
                          THEN <<>> ELSE buf
                /\ UNCHANGED << stage, dims, nnz, capacity >>
           ELSE /\ buf' = <<>>
                /\ dims' = o.dims
                /\ IF is_sparse
                   THEN IF ~o.nnz.some
                        THEN /\ result' = Failed(MtxError("EarlySizesHeaderEnd", <<>>))
                             /\ UNCHANGED << stage, nnz, capacity >>
                        ELSE /\ nnz' = o.nnz.val
                             /\ stage' = "parse_sparse_coo"
                             /\ UNCHANGED << result, capacity >>
                   ELSE IF cap.panic
                        THEN /\ result' = Panicked
                             /\ UNCHANGED << stage, nnz, capacity >>
                        ELSE /\ capacity' = cap.val
                             /\ stage' = "parse_dense_vec"
                             /\ UNCHANGED << result, nnz >>
    /\ UNCHANGED << overflow_checks, file, pos, is_sparse, sym, indices, values, k,
                    call, first, edit >>

\* parse_sparse_coo: one iteration of `for _ in 0..nnz`
ParseSparseCoo ==
    /\ Running /\ stage = "parse_sparse_coo"
    /\ ~RangeDone(k, nnz)
    /\ IF AtEof
       THEN /\ result' = Failed(MtxError("EarlyEOF", <<>>))
            /\ UNCHANGED << pos, buf, indices, values, k >>
       ELSE LET b == buf \o file[pos + 1]
                o == ParseCoordsVal(b, overflow_checks)
            IN  /\ pos' = pos + 1
                /\ IF Try(o)
                   THEN /\ indices' = Append(indices, o.dims)
                        /\ values' = Append(values, o.value.val)
                        /\ buf' = <<>>
                        /\ k' = k + 1
                        /\ UNCHANGED result
                   ELSE /\ result' = Ended(o)
                        /\ buf' = b
                        /\ UNCHANGED << indices, values, k >>
    /\ UNCHANGED << overflow_checks, file, stage, is_sparse, sym, dims, nnz, capacity,
                    call, first, edit >>

\* parse_sparse_coo returns Ok((indices, values)) and from_file
\* Ok(MtxData::Sparse(dims, indices, values, sym))
ReturnSparse ==
    /\ Running /\ stage = "parse_sparse_coo"
    /\ RangeDone(k, nnz)
    /\ result' = OkSparse(dims, indices, values, sym)
    /\ UNCHANGED << overflow_checks, file, pos, buf, stage, is_sparse, sym, dims, nnz,
                    capacity, indices, values, k, call, first, edit >>

\* parse_dense_vec: one iteration of `for _ in 0..capacity`
ParseDenseVec ==
    /\ Running /\ stage = "parse_dense_vec"
    /\ ~RangeDone(k, capacity)
    /\ IF AtEof
       THEN /\ result' = Failed(MtxError("EarlyEOF", <<>>))
            /\ UNCHANGED << pos, buf, values, k >>
       ELSE LET b == buf \o file[pos + 1]
                o == DenseValue(b)
            IN  /\ pos' = pos + 1
                /\ IF Try(o)
                   THEN /\ values' = Append(values, o.val)
                        /\ buf' = <<>>
                        /\ k' = k + 1
                        /\ UNCHANGED result
                   ELSE /\ result' = Ended(o)
                        /\ buf' = b
                        /\ UNCHANGED << values, k >>
    /\ UNCHANGED << overflow_checks, file, stage, is_sparse, sym, dims, nnz, capacity,
                    indices, call, first, edit >>

\* parse_dense_vec returns Ok(v) and from_file Ok(MtxData::Dense(dims, values, sym))
ReturnDense ==
    /\ Running /\ stage = "parse_dense_vec"
    /\ RangeDone(k, capacity)
    /\ result' = OkDense(dims, values, sym)
    /\ UNCHANGED << overflow_checks, file, pos, buf, stage, is_sparse, sym, dims, nnz,
                    capacity, indices, values, k, call, first, edit >>

\* the caller edits the file it has parsed and calls from_file on it again:
\* File::open, BufReader::new and String::new start from nothing
CallAgain ==
    /\ ~Running /\ call = 1
    /\ \E e \in Edits :
          /\ edit' = e
          /\ file' = Edited(file, e)
    /\ first' = [file |-> file, pos |-> pos, result |-> result]
    /\ call' = 2
    /\ Entry
    /\ UNCHANGED overflow_checks

Next ==
    \/ ParseBanner
    \/ SkipComments
    \/ ParseSizesStage
    \/ ParseSparseCoo
    \/ ReturnSparse
    \/ ParseDenseVec
    \/ ReturnDense
    \/ CallAgain

Spec == Init /\ [][Next]_vars

(***************************************************************************)
(* What the claims speak of, read off the file itself.                     *)
(***************************************************************************)
Tokens(l) == SplitWhitespace(l)

\* the index of the size line of f: the first line after the first one that
\* does not begin with '%'; 0 when there is none
SizeIdx(f) ==
    LET S == { j \in 2..Len(f) : ~StartsWith(f[j], "%") }
    IN  IF S = {} THEN 0 ELSE CHOOSE j \in S : \A m \in S : j <= m

\* the decimal value of a token of digits
Value(tok) == UsizeFromStr(tok).val

\* the non-zero count the size line declares
DeclNnz(f) == Value(Tokens(f[SizeIdx(f)])[NDIM + 1])

RECURSIVE MathProduct(_)
MathProduct(ns) == IF ns = <<>> THEN 1 ELSE Head(ns) * MathProduct(Tail(ns))

\* the product of the dimensions the size line declares
DeclProduct(f) == MathProduct([d \in 1..NDIM |-> Value(Tokens(f[SizeIdx(f)])[d])])

Succeeded(r) == r.tag \in {"Sparse", "Dense"}

InBody == stage \in {"parse_sparse_coo", "parse_dense_vec"}

\* the number of body lines the size line asks for
DeclCount(f) == IF stage = "parse_sparse_coo" THEN DeclNnz(f) ELSE DeclProduct(f)

\* every line is a comment line or a blank line
IsCommentOnly(f) == \A i \in 1..Len(f) : StartsWith(f[i], "%") \/ Tokens(f[i]) = <<>>

EarlyEOF == Failed(MtxError("EarlyEOF", <<>>))

(***************************************************************************)
(* C1.                                                                     *)
(***************************************************************************)
\* the stage function running in this state returns Err when it takes its step
StepFails ==
    CASE stage = "parse_banner" -> AtEof \/ BannerOf(buf \o file[pos + 1]).tag = "err"
      [] stage = "skip_comments" -> AtEof
      [] stage = "parse_sizes" ->
            \/ ParseSizes(buf).tag = "err"
            \/ ParseSizes(buf).tag = "ok" /\ is_sparse /\ ~ParseSizes(buf).nnz.some
      [] stage = "parse_sparse_coo" ->
            k < nnz /\ (AtEof \/ ParseCoordsVal(buf \o file[pos + 1], overflow_checks).tag = "err")
      [] stage = "parse_dense_vec" ->
            k < capacity /\ (AtEof \/ DenseValue(buf \o file[pos + 1]).tag = "err")

StageOrder ==
    { <<"parse_banner", "skip_comments">>, <<"skip_comments", "parse_sizes">>,
      <<"parse_sizes", "parse_sparse_coo">>, <<"parse_sizes", "parse_dense_vec">> }

C1_Step ==
    IF call' # call
    THEN Running' /\ stage' = "parse_banner" /\ pos' = 0
    ELSE \* a call that has ended takes no further step
         /\ Running
         \* the stages follow one another in the fixed order
         /\ stage' = stage \/ <<stage, stage'>> \in StageOrder
         /\ stage' # stage => Running'
         \* a failing stage ends the call with Err, reading at most its own line
         /\ StepFails => /\ result'.tag = "Err"
                         /\ stage' = stage
                         /\ pos' \in {pos, pos + 1}
         /\ result'.tag = "Err" => StepFails
         \* an MtxData is returned by a body parser that has run to its end
         /\ Succeeded(result') =>
               /\ InBody /\ stage' = stage
               /\ result'.tag = (IF is_sparse THEN "Sparse" ELSE "Dense")
               /\ k = (IF is_sparse THEN nnz ELSE capacity)
               /\ Len(result'.values) = k
               /\ is_sparse => Len(result'.indices) = k
               /\ result'.dims = dims /\ result'.sym = sym

\* C1: from_file runs parse_banner, skip_comments, parse_sizes and then one
\* body parser in this order and never goes back; when a stage fails no later
\* stage runs, no further line is read and from_file returns Err; an MtxData
\* is returned only when every stage succeeded, and it is complete.
C1_StagesInOrder == [][C1_Step]_vars

\* a call that failed at the size line with lines of the file left unread
C1_Witness ==
    /\ result.tag = "Err" /\ stage = "parse_sizes" /\ pos < Len(file)
    /\ result.err.kind = "InvalidCoordinate"

(***************************************************************************)
(* C2.                                                                     *)
(***************************************************************************)
\* C2: when from_file succeeds, a Sparse result holds as many coordinates and
\* as many values as the size line's non-zero count, and a Dense result as
\* many values as the product of the declared dimensions.
C2_Cardinality ==
    /\ result.tag = "Sparse" =>
          /\ Len(result.indices) = DeclNnz(file)
          /\ Len(result.values) = DeclNnz(file)
    /\ result.tag = "Dense" => Len(result.values) = DeclProduct(file)

\* the doc example parsed: two coordinates and two values for nnz = 2
C2_Witness ==
    /\ result.tag = "Sparse" /\ DeclNnz(file) = 2
    /\ Len(result.indices) = 2 /\ Len(result.values) = 2

(***************************************************************************)
(* C3.                                                                     *)
(***************************************************************************)
\* C3: in a Sparse result the k-th coordinate is the k-th body line's NDIM
\* coordinate tokens, each (being at least 1) decreased by one, and the k-th
\* value is that line's value token; the entries are in file order.
C3_ZeroBased ==
    result.tag = "Sparse" =>
        /\ Len(result.indices) = DeclNnz(file)
        /\ Len(result.values) = DeclNnz(file)
        /\ \A j \in 1..Len(result.indices) :
              LET t == Tokens(file[SizeIdx(file) + j])
              IN  /\ Len(t) >= NDIM + 1
                  /\ \A d \in 1..NDIM :
                        Value(t[d]) >= 1 => result.indices[j][d] = Value(t[d]) - 1
                  /\ j <= Len(result.values)
                  /\ result.values[j] = I32FromStrRadix(t[NDIM + 1]).val

\* the doc example: "1 1 3" and "2 2 4" give [0,0] -> 3 and [1,1] -> 4
C3_Witness ==
    /\ result.tag = "Sparse"
    /\ result.indices = << <<0, 0>>, <<1, 1>> >>
    /\ result.values = <<3, 4>>

(***************************************************************************)
(* C4.                                                                     *)
(***************************************************************************)
\* C4: once the first line is read, parse_banner has failed with
\* EarlyBannerEnd if the line has fewer than 5 tokens, with UnsupportedSym
\* carrying the fifth token if that is neither "general" nor "symmetric", and
\* has otherwise returned is_sparse = (third token = "coordinate") and the
\* symmetry the fifth token names, whatever tokens one, two and four are.
C4_Banner ==
    pos >= 1 =>
        LET t == Tokens(file[1])
        IN  IF Len(t) < 5
            THEN stage = "parse_banner" /\ result = Failed(MtxError("EarlyBannerEnd", <<>>))
            ELSE IF t[5] \notin {StrGeneral, StrSymmetric}
            THEN stage = "parse_banner" /\ result = Failed(MtxError("UnsupportedSym", t[5]))
            ELSE /\ stage # "parse_banner"
                 /\ is_sparse = (t[3] = StrCoordinate)
                 /\ sym = (IF t[5] = StrGeneral THEN "General" ELSE "Symmetric")

\* the banner "x y coordinate z general" accepted as sparse and general
C4_Witness ==
    /\ stage = "skip_comments" /\ is_sparse /\ sym = "General"
    /\ Tokens(file[1])[1] = <<"x">>

(***************************************************************************)
(* C5.                                                                     *)
(***************************************************************************)
\* the caller's second call is over, on the first call's file with comment
\* lines inserted at one of the places `kinds`, the first call having succeeded
CommentsInserted(kinds) ==
    /\ call = 2 /\ ~Running
    /\ Succeeded(first.result)
    /\ edit.kind \in kinds
    /\ StartsWith(edit.line, "%")

\* C5 as stated: comment lines inserted before the banner, or between the
\* banner and the size line, of a file from_file accepts leave the result
\* unchanged.
C5_AsStated ==
    CommentsInserted({"before_banner", "before_sizes"}) => result = first.result

\* C5 amended: comment lines inserted between the banner and the size line of
\* a file from_file accepts leave the result unchanged.
C5_CommentsBeforeSizes ==
    CommentsInserted({"before_sizes"}) => result = first.result

\* two comment lines inserted after the banner of a sparse file, parsed again
C5_Witness ==
    /\ CommentsInserted({"before_sizes"}) /\ edit.n = 2
    /\ result.tag = "Sparse" /\ Len(result.values) = 2

(***************************************************************************)
(* C6.                                                                     *)
(***************************************************************************)
\* a body line the body parser of this call accepts
WellFormedBodyLine(l) ==
    IF stage = "parse_sparse_coo"
    THEN ParseCoordsVal(l, TRUE).tag = "ok"
    ELSE DenseValue(l).tag = "ok"

\* the step is a read_line at the end of the input
ReadsAtEof ==
    /\ Running /\ AtEof
    /\ \/ stage \in {"parse_banner", "skip_comments"}
       \/ stage = "parse_sparse_coo" /\ k < nnz
       \/ stage = "parse_dense_vec" /\ k < capacity

C6_State ==
    \* a successful parse has read exactly N lines after the size line
    /\ Succeeded(result) => pos = SizeIdx(file) + DeclCount(file)
    \* fewer than N body lines, all of them well-formed: EarlyEOF
    /\ ( /\ ~Running /\ InBody
         /\ Len(file) - SizeIdx(file) < DeclCount(file)
         /\ \A j \in SizeIdx(file) + 1..Len(file) : WellFormedBodyLine(file[j]) )
       => result = EarlyEOF
    \* lines after the N-th are not read and do not change the result
    /\ ( /\ call = 2 /\ ~Running /\ edit.kind = "append"
         /\ Succeeded(first.result) )
       => result = first.result /\ pos = first.pos /\ pos < Len(file)

\* C6: the body parser reads exactly N lines after the size line (N the
\* declared non-zero count, or the product of the dimensions); input that
\* ends before N well-formed body lines gives EarlyEOF, lines beyond the N-th
\* are never read and leave the result unchanged, and a read at the end of
\* input in any stage is reported as EarlyEOF.
C6_ExactlyNLines ==
    [][ /\ (ReadsAtEof /\ call' = call) => (result' = EarlyEOF /\ pos' = pos)
        /\ C6_State' ]_vars

\* a sparse file parsed again with lines appended, which stay unread
C6_Witness ==
    /\ call = 2 /\ edit.kind = "append" /\ edit.n = 2
    /\ result.tag = "Sparse" /\ Len(result.values) = 2
    /\ pos = Len(file) - 2

(***************************************************************************)
(* C7.                                                                     *)
(***************************************************************************)
\* the line has a coordinate token 0, the tokens before it being integers
HasZeroCoord(l) ==
    LET t == Tokens(l)
    IN  \E d \in 1..NDIM :
           /\ d <= Len(t)
           /\ UsizeFromStr(t[d]).ok /\ Value(t[d]) = 0
           /\ \A e \in 1..d - 1 : UsizeFromStr(t[e]).ok

\* the sparse body parser has read a line
SparseLineRead == stage = "parse_sparse_coo" /\ pos > SizeIdx(file)

\* C7: a sparse body line with a coordinate token 0 is rejected, from_file
\* failing with InvalidCoordinate, and no coordinate computed as 0 - 1 is
\* stored.
C7_ZeroRejected ==
    (SparseLineRead /\ HasZeroCoord(file[pos])) =>
        /\ result.tag = "Err" /\ result.err.kind = "InvalidCoordinate"
        /\ Len(indices) = k

(***************************************************************************)
(* C8.                                                                     *)
(***************************************************************************)
\* C8 as stated: a file of comment and blank lines only makes from_file fail
\* with EarlyEOF.
C8_AsStated ==
    (~Running /\ IsCommentOnly(file)) => result = EarlyEOF

\* C8 amended: a file of comment and blank lines only makes from_file fail
\* and never succeed: with EarlyEOF when the file is empty, or when its first
\* line passes as a banner and only comment lines follow; with EarlyBannerEnd
\* when its first line has fewer than 5 tokens; with UnsupportedSym when the
\* fifth token is no known symmetry; with EarlySizesHeaderEnd when its first
\* line passes as a banner and a blank line follows.
C8_CommentOnlyFails ==
    (~Running /\ IsCommentOnly(file)) =>
        /\ result.tag = "Err"
        /\ result.err.kind =
              IF file = <<>> THEN "EarlyEOF"
              ELSE IF Len(Tokens(file[1])) < 5 THEN "EarlyBannerEnd"
              ELSE IF Tokens(file[1])[5] \notin {StrGeneral, StrSymmetric}
                   THEN "UnsupportedSym"
              ELSE IF SizeIdx(file) = 0 THEN "EarlyEOF"
              ELSE "EarlySizesHeaderEnd"

\* a comment line that passes as a banner, then a blank line taken as size line
C8_Witness ==
    /\ ~Running /\ IsCommentOnly(file) /\ Len(file) >= 2
    /\ result.tag = "Err" /\ result.err.kind = "EarlySizesHeaderEnd"

(***************************************************************************)
(* C9.                                                                     *)
(***************************************************************************)
\* the sparse body parser has read a line of fewer than NDIM+1 tokens
ShortLineRead == SparseLineRead /\ Len(Tokens(file[pos])) < NDIM + 1

\* the tokens of t that are not an integer of at least 1
NotPositive(t) == { d \in 1..Len(t) : ~(UsizeFromStr(t[d]).ok /\ Value(t[d]) >= 1) }

\* C9 as stated: a sparse body line of fewer than NDIM+1 tokens makes the
\* parse fail with EarlyLineEnd.
C9_AsStated ==
    ShortLineRead => result = Failed(MtxError("EarlyLineEnd", <<>>))

\* C9 amended: a sparse body line of fewer than NDIM+1 tokens makes the parse
\* fail with EarlyLineEnd when each of its tokens is an unsigned integer of at
\* least 1 (a blank line included), and with InvalidCoordinate when the first
\* token that is not is no unsigned integer at all (as in "1 0.5").
C9_ShortLine ==
    ShortLineRead =>
        LET t == Tokens(file[pos])
            bad == NotPositive(t)
            d == CHOOSE x \in bad : \A y \in bad : x <= y
        IN  IF bad = {}
            THEN result = Failed(MtxError("EarlyLineEnd", <<>>))
            ELSE ~UsizeFromStr(t[d]).ok =>
                    result = Failed(FromParseIntError(UsizeFromStr(t[d])))

\* the body line "1 1", without its value, rejected with EarlyLineEnd
C9_Witness ==
    /\ ShortLineRead /\ Len(Tokens(file[pos])) = 2
    /\ result = Failed(MtxError("EarlyLineEnd", <<>>))

(***************************************************************************)
(* C10.                                                                    *)
(***************************************************************************)
\* C10: whatever the number of tokens of the size line and of the body
\* lines, no write goes past the end of the NDIM-long array, and from_file
\* ends with Ok or Err and never aborts.
C10_NeverAborts == result.tag # "Panic"

=============================================================================
